---- MODULE Spec2Model ----
(***************************************************************************)
(* GPGSM save-file scanner (scanning.py): the classifier                   *)
(* detect_console_type, the game-name clean-up, load_ignore_list, the      *)
(* os.walk driven scan_directory and the ScannerThread that runs it.       *)
(*                                                                         *)
(* Python strings are TLA+ strings; TLC evaluates Len, SubSeq and \o on    *)
(* them, so substring tests, suffix extraction and the regular-expression  *)
(* substitutions are computed character by character.                      *)
(***************************************************************************)
EXTENDS Integers, Sequences, FiniteSets, TLC

VARIABLES
    d_path,     \* detect_console_type: the file_path argument
    d_cfg,      \* detect_console_type: the content of config.json
    d_pc,       \* detect_console_type: "call" before the call, "done" after
    d_out,      \* detect_console_type: what the call produced
    n_file,     \* game-name clean-up: the file name os.walk listed
    n_pc,       \* game-name clean-up: "call" before, "done" after
    n_name,     \* game-name clean-up: the game_name computed
    directory,      \* ScannerThread.directory, the root handed to os.walk
    unreadable,     \* directories whose listing is denied
    removed,        \* files deleted from the tree so far
    ignore_json,    \* the content of ignore.json
    config_json,    \* the content of config.json
    pc,             \* position of ScannerThread.run
    ignore_dirs,    \* scan_directory: ignore_dirs
    ignore_files,   \* scan_directory: ignore_files
    walk_stack,     \* os.walk: directories still to be listed, next first
    walk_root,      \* scan_directory: root of the current os.walk item
    walk_files,     \* scan_directory: files of the current item not yet seen
    save_files,     \* scan_directory: save_files
    error,          \* the exception that left scan_directory, "" if none
    emitted,        \* signals ScannerThread has emitted, in order
    tree_changed,   \* a file was deleted since the previous run ended
    prev,           \* the previous run, if the tree was not changed during
                    \* it: <<>> or <<summary>>
    select_enabled, \* ScanningWindow: select_button.isEnabled()
    status_label,   \* ScanningWindow: the text of status_label
    scan_results,   \* ScanningWindow.scan_results
    dialog,         \* ScanningWindow: "open" until accept() was called
    msg_open,       \* ScanningWindow: handle_error is inside QMessageBox
    delivered,      \* signals of self.scanner the window has handled
    orphans,        \* replaced ScannerThreads whose run has not ended
    scans           \* ScannerThreads the window has created

dvars == <<d_path, d_cfg, d_pc, d_out>>
nvars == <<n_file, n_pc, n_name>>
envvars == <<directory, unreadable, config_json>>
scanvars == <<ignore_dirs, ignore_files, walk_stack, walk_root, walk_files,
              save_files, error>>
wvars == <<select_enabled, status_label, scan_results, dialog, msg_open,
           delivered, orphans, scans>>
svars == <<envvars, removed, ignore_json, pc, scanvars, emitted,
           tree_changed, prev, wvars>>
vars == <<dvars, nvars, svars>>

(***************************************************************************)
(* Bounds of the checked instances.                                        *)
(***************************************************************************)
MaxDirs == 5        \* directory prefixes given to detect_console_type
MaxCfgKeys == 2     \* emulator names a config.json may mention
MaxStemLen == 4     \* characters of a generated file stem
MaxScans == 2       \* directories selected in one ScanningWindow

(***************************************************************************)
(* String helpers (str.lower, "in", str.split, pathlib suffix/stem).       *)
(***************************************************************************)
Min(S) == CHOOSE x \in S : \A y \in S : x <= y
Max(S) == CHOOSE x \in S : \A y \in S : x >= y

Ch(s, i) == SubSeq(s, i, i)

Upper == "ABCDEFGHIJKLMNOPQRSTUVWXYZ"
LowerAlpha == "abcdefghijklmnopqrstuvwxyz"

LowerCh(c) ==
    LET hit == {i \in 1..Len(Upper) : Ch(Upper, i) = c}
    IN  IF hit = {} THEN c ELSE Ch(LowerAlpha, Min(hit))

RECURSIVE LowerFrom(_, _)
LowerFrom(s, i) ==
    IF i > Len(s) THEN "" ELSE LowerCh(Ch(s, i)) \o LowerFrom(s, i + 1)

\* str.lower()
Lower(s) == LowerFrom(s, 1)

\* key in s
Contains(s, key) ==
    \E i \in 1..(Len(s) - Len(key) + 1) : SubSeq(s, i, i + Len(key) - 1) = key

\* s.rfind(c): the last index of the character c, 0 when there is none
\* (Python's -1, shifted with the indices to 1-based)
RFind(s, c) ==
    LET hit == {i \in 1..Len(s) : Ch(s, i) = c}
    IN  IF hit = {} THEN 0 ELSE Max(hit)

\* s.find(c), 1-based, 0 when there is none
Find(s, c) ==
    LET hit == {i \in 1..Len(s) : Ch(s, i) = c}
    IN  IF hit = {} THEN 0 ELSE Min(hit)

\* PurePath.name: the final component of the path
PathName(p) == SubSeq(p, RFind(p, "/") + 1, Len(p))

\* PurePath.suffix: name[i:] for i = name.rfind('.') when 0 < i < len(name)-1
\* (0-based), else ''
PathSuffix(p) ==
    LET name == PathName(p)
        i == RFind(name, ".")
    IN  IF 1 < i /\ i < Len(name) THEN SubSeq(name, i, Len(name)) ELSE ""

\* PurePath.stem: name[:i] under the same condition, else name
PathStem(p) ==
    LET name == PathName(p)
        i == RFind(name, ".")
    IN  IF 1 < i /\ i < Len(name) THEN SubSeq(name, 1, i - 1) ELSE name

\* label.split('/')[0]
SplitFirst(label) ==
    LET i == Find(label, "/")
    IN  IF i = 0 THEN label ELSE SubSeq(label, 1, i - 1)

(***************************************************************************)
(* JSON values read from the configuration files.                          *)
(***************************************************************************)
Str(s) == [t |-> "str", s |-> s]
JNull == [t |-> "null", s |-> ""]
JNum(s) == [t |-> "num", s |-> s]

\* Python truth value of a JSON value (the left operand of "or")
Truthy(v) ==
    CASE v.t = "str" -> v.s # ""
      [] v.t = "num" -> v.s # "0"
      [] OTHER -> FALSE

(***************************************************************************)
(* detect_console_type                                                     *)
(***************************************************************************)
Direct(ext, triple) ==
    [ext |-> ext, dict |-> FALSE, entries |-> <<>>, value |-> triple]
SubMap(ext, entries) ==
    [ext |-> ext, dict |-> TRUE, entries |-> entries, value |-> <<>>]

\* The dictionary literal, in its insertion order.
console_patterns == <<
    SubMap(".sav", <<
        <<"gb", <<"Game Boy", "mGBA/VBA", "Original">> >>,
        <<"gbc", <<"GBC", "mGBA/VBA", "Color">> >>,
        <<"gba", <<"GBA", "mGBA/VBA", "Advance">> >>,
        <<"nes", <<"NES", "FCEUX", "Original">> >>,
        <<"snes", <<"SNES", "SNES9x", "Original">> >> >>),
    SubMap(".srm", <<
        <<"snes", <<"SNES", "SNES9x", "Original">> >>,
        <<"gba", <<"GBA", "mGBA", "Advance">> >>,
        <<"genesis", <<"Sega Genesis", "Fusion", "Original">> >> >>),
    Direct(".mcr", <<"PS1", "ePSXe", "Original">>),
    Direct(".mc", <<"PS2", "PCSX2", "Original">>),
    Direct(".mem", <<"N64", "Project64", "Original">>),
    Direct(".gci", <<"GameCube", "Dolphin", "Original">>),
    Direct(".sram", <<"SNES", "ZSNES", "Original">>),
    Direct(".dsv", <<"DS", "DeSmuME", "Original">>),
    Direct(".duc", <<"DS", "DraStic", "Original">>),
    Direct(".nps", <<"PSP", "PPSSPP", "Original">>),
    Direct(".vms", <<"Dreamcast", "NullDC", "Original">>),
    Direct(".sav2", <<"3DS", "Citra", "Original">>),
    Direct(".dat", <<"PS3", "RPCS3", "Original">>),
    Direct(".bin", <<"PS Vita", "Vita3K", "Original">>),
    Direct(".nv", <<"Switch", "Yuzu", "Original">>) >>

\* The value of emulator_paths after the try/except: json.load and
\* config.get('emulator_paths', {}) inside the try, {} on any exception.
\* A config.json that parses to an object keeps whatever value the key has.
EmptyDict == [t |-> "dict", m |-> <<>>]
LoadEmulatorPaths(cfg) ==
    CASE cfg.kind = "missing" -> EmptyDict        \* open raises
      [] cfg.kind = "malformed" -> EmptyDict      \* json.load raises
      [] cfg.kind = "nonobject" -> EmptyDict      \* config.get raises
      [] cfg.kind = "object" /\ ~cfg.has -> EmptyDict
      [] OTHER -> cfg.ep

\* dict.get(key, '')
DictGet(m, key) == IF key \in DOMAIN m THEN m[key] ELSE Str("")

Returned(triple, branch) ==
    [kind |-> "triple", console_type |-> triple[1], emulator |-> triple[2],
     hardware_type |-> triple[3], branch |-> branch]
NoResult ==
    [kind |-> "none", console_type |-> "", emulator |-> JNull,
     hardware_type |-> "", branch |-> ""]
Raised(what) ==
    [kind |-> "raised", console_type |-> what, emulator |-> JNull,
     hardware_type |-> "", branch |-> "raise"]

\* emulator_paths.get(value[1], ''): the lookup with the whole label as key
ResolveWholeLabel(ep, value, branch) ==
    IF ep.t # "dict" THEN Raised("AttributeError")
    ELSE LET emulator_path == DictGet(ep.m, value[2])
         IN  Returned(<<value[1],
                        IF Truthy(emulator_path) THEN emulator_path
                        ELSE Str(value[2]),
                        value[3]>>, branch)

\* The three lines shared by the return branches:
\*   emulator_name = value[1].split('/')[0]
\*   emulator_path = emulator_paths.get(emulator_name, '')
\*   return (value[0], emulator_path or value[1], value[2])
\* emulator_paths.get raises AttributeError when the value is no dict.
ResolveEmulator(ep, value, branch) ==
    IF ep.t # "dict" THEN Raised("AttributeError")
    ELSE LET emulator_name == SplitFirst(value[2])
             emulator_path == DictGet(ep.m, emulator_name)
         IN  Returned(<<value[1],
                        IF Truthy(emulator_path) THEN emulator_path
                        ELSE Str(value[2]),
                        value[3]>>, branch)

\* a fallback that reports the console as unknown too
FallbackUnknown ==
    Returned(<<"Unknown", Str("Unknown"), "Unknown">>, "fallback")

\* return ('PC', 'Unknown', 'Unknown')
Fallback == Returned(<<"PC", Str("Unknown"), "Unknown">>, "fallback")

detect_console_type(file_path, cfg) ==
    LET fp == Lower(file_path)
        extension == PathSuffix(fp)
        path_str == Lower(fp)
        emulator_paths == LoadEmulatorPaths(cfg)
        rows == {i \in 1..Len(console_patterns) :
                    console_patterns[i].ext = extension}
    IN  IF rows = {} THEN Fallback
        ELSE LET console_info == console_patterns[Min(rows)]
                 hits == {j \in 1..Len(console_info.entries) :
                             Contains(path_str, console_info.entries[j][1])}
             IN  IF console_info.dict
                 THEN IF hits # {}
                      THEN ResolveEmulator(emulator_paths,
                               console_info.entries[Min(hits)][2], "match")
                      ELSE ResolveEmulator(emulator_paths,
                               console_info.entries[1][2], "default")
                 ELSE ResolveEmulator(emulator_paths, console_info.value,
                                      "direct")

(***************************************************************************)
(* Inputs of the classifier instances.                                     *)
(***************************************************************************)
DirPrefixes == <<"/games/gba/", "/x/nes/", "/roms/", "/x/SNES/", "",
                 "/genesis/", "/gbc/">>
Stems == {"pokemon", "z"}
TableExts == {console_patterns[i].ext : i \in 1..Len(console_patterns)}
Exts == TableExts \cup {".xyz", "", ".SAV", ".Srm", ".savx", "."}

DetectPaths ==
    {DirPrefixes[i] \o s \o e :
        i \in 1..Min({MaxDirs, Len(DirPrefixes)}), s \in Stems, e \in Exts}

EmulatorNames == <<"mGBA", "mGBA/VBA", "FCEUX", "SNES9x">>
CfgValues == {Str(""), Str("/opt/mgba"), JNull, JNum("5")}
CfgKeySets == SUBSET {EmulatorNames[i] :
                        i \in 1..Min({MaxCfgKeys, Len(EmulatorNames)})}
CfgDicts == UNION {[K -> CfgValues] : K \in CfgKeySets}

Cfg(kind, has, ep) == [kind |-> kind, has |-> has, ep |-> ep]
EmulatorConfigs ==
    {Cfg("missing", FALSE, JNull), Cfg("malformed", FALSE, JNull),
     Cfg("nonobject", FALSE, JNull), Cfg("object", FALSE, JNull),
     Cfg("object", TRUE, JNull), Cfg("object", TRUE, Str("x"))}
    \cup {Cfg("object", TRUE, [t |-> "dict", m |-> m]) : m \in CfgDicts}

(***************************************************************************)
(* Each specification below exercises one part of the program and leaves   *)
(* the variables of the other parts at these values.                       *)
(***************************************************************************)
DetectUnused ==
    /\ d_path = "" /\ d_cfg = Cfg("missing", FALSE, JNull)
    /\ d_pc = "unused" /\ d_out = NoResult

NameUnused == n_file = "" /\ n_pc = "unused" /\ n_name = ""

\* no ScanningWindow: the scan is started directly
WindowUnused ==
    /\ select_enabled = FALSE /\ status_label = "" /\ scan_results = <<>>
    /\ dialog = "unused" /\ msg_open = FALSE
    /\ delivered = 0 /\ orphans = 0 /\ scans = 0

ScanUnused ==
    /\ directory = "" /\ unreadable = {} /\ removed = {}
    /\ ignore_json = <<>>
    /\ config_json = Cfg("missing", FALSE, JNull)
    /\ pc = "unused"
    /\ ignore_dirs = <<>> /\ ignore_files = <<>>
    /\ walk_stack = <<>> /\ walk_root = "" /\ walk_files = <<>>
    /\ save_files = <<>> /\ error = "" /\ emitted = <<>>
    /\ tree_changed = FALSE /\ prev = <<>>
    /\ WindowUnused

(***************************************************************************)
(* The classifier called once on any path under any config.json.           *)
(***************************************************************************)
DetectInit ==
    /\ d_path \in DetectPaths
    /\ d_cfg \in EmulatorConfigs
    /\ d_pc = "call"
    /\ d_out = NoResult
    /\ NameUnused /\ ScanUnused

Detect ==
    /\ d_pc = "call"
    /\ d_out' = detect_console_type(d_path, d_cfg)
    /\ d_pc' = "done"
    /\ UNCHANGED <<d_path, d_cfg, nvars, svars>>

DetectNext == Detect

SpecDetect == DetectInit /\ [][DetectNext]_vars

(***************************************************************************)
(* Claims about detect_console_type, checked under SpecDetect.             *)
(***************************************************************************)
d_ext == PathSuffix(Lower(d_path))

\* C1: for every .sav path whose lower-cased text contains "gba", the
\* triple detect_console_type returns has console_type "GBA".
C1_GbaSavIsGBA ==
    (/\ d_pc = "done"
     /\ d_out.kind = "triple"
     /\ d_ext = ".sav"
     /\ Contains(Lower(d_path), "gba"))
    => d_out.console_type = "GBA"

\* C7: for every path whose extension equals no key of the extension table,
\* detect_console_type returns exactly ("PC", "Unknown", "Unknown"),
\* whatever config.json contains.
C7_UnknownExtensionFallback ==
    (d_pc = "done" /\ d_ext \notin TableExts)
    => /\ d_out.kind = "triple"
       /\ d_out.console_type = "PC"
       /\ d_out.emulator = Str("Unknown")
       /\ d_out.hardware_type = "Unknown"

\* C7 witness: an .xyz path classified while emulator_paths is null.
C7_Witness ==
    /\ d_pc = "done"
    /\ d_path = "/roms/z.xyz"
    /\ d_cfg = Cfg("object", TRUE, JNull)
    /\ d_out.console_type = "PC"

\* The table triples of an extension (sub-mapping values or the direct one).
TriplesFor(ext) ==
    UNION {IF console_patterns[i].dict
           THEN {console_patterns[i].entries[j][2] :
                    j \in 1..Len(console_patterns[i].entries)}
           ELSE {console_patterns[i].value} :
           i \in {k \in 1..Len(console_patterns) :
                    console_patterns[k].ext = ext}}

\* config.json is readable and maps name to a non-empty path string
CfgMapsToPath(cfg, name) ==
    /\ cfg.kind = "object" /\ cfg.has /\ cfg.ep.t = "dict"
    /\ name \in DOMAIN cfg.ep.m
    /\ cfg.ep.m[name].t = "str" /\ cfg.ep.m[name].s # ""

\* the name is absent from the configuration or mapped to the empty string
CfgUnset(cfg, name) ==
    \/ cfg.kind # "object"
    \/ ~cfg.has
    \/ /\ cfg.ep.t = "dict"
       /\ (name \notin DOMAIN cfg.ep.m \/ cfg.ep.m[name] = Str(""))

C9_NeverRaises == d_pc = "done" => d_out.kind = "triple"

\* the extensions whose table entry is a sub-mapping
SubMapExts ==
    {console_patterns[i].ext :
        i \in {k \in 1..Len(console_patterns) : console_patterns[k].dict}}

SubMapOf(ext) ==
    console_patterns[CHOOSE i \in 1..Len(console_patterns) :
                        console_patterns[i].ext = ext].entries

\* The entry the documented rule selects: the keys tried one after the
\* other from position i, the first that occurs in the text; the
\* first-defined entry when the keys are exhausted.
RECURSIVE FirstKeyEntry(_, _, _)
FirstKeyEntry(entries, text, i) ==
    IF i > Len(entries) THEN entries[1]
    ELSE IF Contains(text, entries[i][1]) THEN entries[i]
    ELSE FirstKeyEntry(entries, text, i + 1)

\* the result carries the console and hardware of the table triple v and
\* its label, or what config.json gives for the label's first name
CarriesTriple(out, cfg, v) ==
    /\ out.kind = "triple"
    /\ out.console_type = v[1]
    /\ out.hardware_type = v[3]
    /\ \/ out.emulator = Str(v[2])
       \/ /\ cfg.kind = "object" /\ cfg.has /\ cfg.ep.t = "dict"
          /\ SplitFirst(v[2]) \in DOMAIN cfg.ep.m
          /\ out.emulator = cfg.ep.m[SplitFirst(v[2])]

\* C12: for a .sav or .srm path detect_console_type returns the triple of
\* the first sub-mapping key, in defined order, that occurs in the
\* lower-cased full path, and the triple of the first-defined key when none
\* occurs; a .sav path with "nes" and no other key yields "NES".
C12_FirstKeyInOrderWins ==
    (d_pc = "done" /\ d_ext \in SubMapExts)
    => CarriesTriple(d_out, d_cfg,
          FirstKeyEntry(SubMapOf(d_ext), Lower(d_path), 1)[2])

\* What does hold of C12: whenever a triple is returned for such a path it
\* is the one the rule selects.
FirstKeyWhenReturned ==
    (d_pc = "done" /\ d_ext \in SubMapExts /\ d_out.kind = "triple")
    => CarriesTriple(d_out, d_cfg,
          FirstKeyEntry(SubMapOf(d_ext), Lower(d_path), 1)[2])

\* ... and the only way not to return one is an emulator_paths that is no
\* dictionary.
SubMapRaisesOnlyOnUntypedConfig ==
    (d_pc = "done" /\ d_ext \in SubMapExts /\ d_out.kind # "triple")
    => /\ d_cfg.kind = "object" /\ d_cfg.has /\ d_cfg.ep.t # "dict"
       /\ d_out = Raised("AttributeError")

\* a .sav path that has "nes" and no other key, under a typed config.json
NesSavExample ==
    (/\ d_pc = "done" /\ d_path = "/x/nes/z.sav"
     /\ d_out.kind = "triple")
    => d_out.console_type = "NES" /\ d_out.branch = "match"

(***************************************************************************)
(* The game-name clean-up of scan_directory (lines 127, 134-137).          *)
(***************************************************************************)
\* a save-extension set with an extension the classifier has no entry for
save_extensions_and_txt ==
    {".sav", ".srm", ".mcr", ".mc", ".mem", ".gci", ".sram", ".dsv", ".duc",
     ".nps", ".vms", ".sav2", ".dat", ".bin", ".nv", ".txt"}

\* lines 114-116
save_extensions ==
    {".sav", ".srm", ".mcr", ".mc", ".mem", ".gci", ".sram", ".dsv", ".duc",
     ".nps", ".vms", ".sav2", ".dat", ".bin", ".nv"}

Openers == {"[", "("}
Closers == {"]", ")"}
Separators == {".", "_", "-"}

\* re.sub(r'[\[(].*?[\])]', '', s), scanning from index i: at an opener
\* that has a closer somewhere after it, the match runs to the nearest such
\* closer and is dropped; any other character is copied.
RECURSIVE SubBracketed(_, _)
SubBracketed(s, i) ==
    IF i > Len(s) THEN ""
    ELSE LET close == {j \in (i + 1)..Len(s) : Ch(s, j) \in Closers}
         IN  IF Ch(s, i) \in Openers /\ close # {}
             THEN SubBracketed(s, Min(close) + 1)
             ELSE Ch(s, i) \o SubBracketed(s, i + 1)

\* re.sub(r'[._-]+', ' ', s): a whole run of separators becomes one space
RECURSIVE SubSeparatorRuns(_, _)
SubSeparatorRuns(s, i) ==
    IF i > Len(s) THEN ""
    ELSE IF Ch(s, i) \in Separators
         THEN (IF i > 1 /\ Ch(s, i - 1) \in Separators THEN "" ELSE " ")
              \o SubSeparatorRuns(s, i + 1)
         ELSE Ch(s, i) \o SubSeparatorRuns(s, i + 1)

\* re.sub(r'[._-]', ' ', s), from index i: each separator character
\* becomes one space
RECURSIVE SubSeparators(_, _)
SubSeparators(s, i) ==
    IF i > Len(s) THEN ""
    ELSE (IF Ch(s, i) \in Separators THEN " " ELSE Ch(s, i))
         \o SubSeparators(s, i + 1)

\* str.strip()
Strip(s) ==
    LET ink == {i \in 1..Len(s) : Ch(s, i) # " "}
    IN  IF ink = {} THEN "" ELSE SubSeq(s, Min(ink), Max(ink))

\* game_name as lines 134-137 compute it from the listed file name
game_name(file) ==
    LET stem == PathStem(file)
        unbracketed == SubBracketed(stem, 1)
    IN  Strip(SubSeparators(unbracketed, 1))

(***************************************************************************)
(* The clean-up applied to one listed file that passes the extension test. *)
(***************************************************************************)
StemAlphabet == {"a", "_", ".", "(", ")", "[", "]", " "}

RECURSIVE StringsUpTo(_)
StringsUpTo(n) ==
    IF n = 0 THEN {""}
    ELSE LET shorter == StringsUpTo(n - 1)
         IN  shorter \cup {s \o c : s \in shorter, c \in StemAlphabet}

NameFiles ==
    {s \o ".sav" : s \in StringsUpTo(MaxStemLen)}
    \cup {"Zelda (USA) [v1.1].sav", "Super_Mario-World.srm", "notes.txt"}

NameInit ==
    /\ n_file \in NameFiles
    /\ n_pc = "call"
    /\ n_name = ""
    /\ DetectUnused /\ ScanUnused

\* line 127 lets the file through, lines 134-137 clean its name
CleanName ==
    /\ n_pc = "call"
    /\ Lower(PathSuffix(n_file)) \in save_extensions
    /\ n_name' = game_name(n_file)
    /\ n_pc' = "done"
    /\ UNCHANGED <<n_file, dvars, svars>>

\* line 127 rejects the file: no record, no name
SkipName ==
    /\ n_pc = "call"
    /\ Lower(PathSuffix(n_file)) \notin save_extensions
    /\ n_pc' = "skipped"
    /\ UNCHANGED <<n_file, n_name, dvars, svars>>

NameNext == CleanName \/ SkipName

SpecName == NameInit /\ [][NameNext]_vars

(***************************************************************************)
(* Claims about the game name, checked under SpecName.                     *)
(***************************************************************************)
n_stem == PathStem(n_file)

\* The positions where a bracketed segment starts: an opener with a closer
\* after it that lies in no segment started further left.
NearestCloser(s, i) ==
    LET close == {j \in (i + 1)..Len(s) : Ch(s, j) \in Closers}
    IN  IF close = {} THEN 0 ELSE Min(close)

SegmentStarts(s) ==
    CHOOSE M \in SUBSET {i \in 1..Len(s) : Ch(s, i) \in Openers} :
        \A i \in 1..Len(s) :
            i \in M <=>
                /\ Ch(s, i) \in Openers
                /\ NearestCloser(s, i) # 0
                /\ \A k \in M : k < i => NearestCloser(s, k) < i

InSegment(s, p) ==
    \E i \in SegmentStarts(s) : i <= p /\ p <= NearestCloser(s, i)

\* the concatenation of the strings pieces[i], pieces[i+1], ...
RECURSIVE Joined(_, _)
Joined(pieces, i) ==
    IF i > Len(pieces) THEN "" ELSE pieces[i] \o Joined(pieces, i + 1)

WithoutSegments(s) ==
    Joined([p \in 1..Len(s) |-> IF InSegment(s, p) THEN "" ELSE Ch(s, p)], 1)

\* every maximal run of separators replaced by a single space
RunsCollapsed(s) ==
    Joined([p \in 1..Len(s) |->
               IF Ch(s, p) \notin Separators THEN Ch(s, p)
               ELSE IF p > 1 /\ Ch(s, p - 1) \in Separators THEN ""
               ELSE " "], 1)

\* every separator character replaced by a space
EachSeparatorSpaced(s) ==
    Joined([p \in 1..Len(s) |->
               IF Ch(s, p) \in Separators THEN " " ELSE Ch(s, p)], 1)

\* t is s without its leading and trailing spaces
IsTrimOf(t, s) ==
    /\ (t # "" => Ch(t, 1) # " " /\ Ch(t, Len(t)) # " ")
    /\ \E a \in 0..Len(s) :
          /\ a + Len(t) <= Len(s)
          /\ SubSeq(s, a + 1, a + Len(t)) = t
          /\ \A i \in (1..a) \cup ((a + Len(t) + 1)..Len(s)) : Ch(s, i) = " "

\* C6 as stated: game_name is the stem with every bracketed or
\* parenthesized segment removed, then every maximal run of '.', '_', '-'
\* replaced by a single space, then trimmed.
C6_RunsCollapsed ==
    n_pc = "done" => IsTrimOf(n_name, RunsCollapsed(WithoutSegments(n_stem)))

\* C6 amended: game_name is the stem with every segment from a '[' or '('
\* to the nearest following ']' or ')' removed, then each single '.', '_',
\* '-' replaced by one space (a run of n separators gives n spaces), then
\* trimmed.
C6_EachSeparatorSpaced ==
    n_pc = "done"
    => IsTrimOf(n_name, EachSeparatorSpaced(WithoutSegments(n_stem)))

\* C6 witness: a name with a segment and a run of two separators is cleaned.
C6_Witness ==
    /\ n_pc = "done"
    /\ n_file = "a__a.sav"
    /\ n_name = "a  a"

\* The two examples of the specification.
C6_Examples ==
    n_pc = "done" =>
        /\ n_file = "Zelda (USA) [v1.1].sav" => n_name = "Zelda"
        /\ n_file = "Super_Mario-World.srm" => n_name = "Super Mario World"

(***************************************************************************)
(* The directory tree that is scanned.  Each directory lists its entries   *)
(* in the order os.scandir reports them.                                   *)
(***************************************************************************)
FileEntry(name) == [name |-> name, isdir |-> FALSE]
DirEntry(name) == [name |-> name, isdir |-> TRUE]

TreeDirs == {"/r", "/r/cache", "/r/cache/deep", "/r/gba"}

Listing(dir) ==
    CASE dir = "/r" ->
            <<FileEntry("a.sav"), DirEntry("cache"), DirEntry("gba"),
              FileEntry("n.txt")>>
      [] dir = "/r/cache" -> <<DirEntry("deep")>>
      [] dir = "/r/cache/deep" -> <<FileEntry("d.srm")>>
      [] dir = "/r/gba" -> <<FileEntry("p.SAV")>>
      [] OTHER -> <<>>

\* os.path.join(root, name) for a root without a trailing separator
PathJoin(root, name) == root \o "/" \o name

AllFiles ==
    UNION {{PathJoin(d, Listing(d)[i].name) :
                i \in {k \in 1..Len(Listing(d)) : ~Listing(d)[k].isdir}} :
           d \in TreeDirs}

\* os.path.getmtime, in seconds since the epoch
MTime(path) ==
    CASE path = "/r/a.sav" -> 5
      [] path = "/r/cache/deep/d.srm" -> 7
      [] path = "/r/gba/p.SAV" -> 42
      [] OTHER -> 0

Digits == "0123456789"
TwoDigits(n) == Ch(Digits, (n \div 10) + 1) \o Ch(Digits, (n % 10) + 1)

\* datetime.fromtimestamp(t).strftime('%Y-%m-%d %H:%M:%S') for a time in
\* the first minute of the epoch, in UTC
FormatTime(t) == "1970-01-01 00:00:" \o TwoDigits(t)

(***************************************************************************)
(* load_ignore_list.  Lines starting with '#' are dropped before parsing;  *)
(* ignore.json is described by what json.loads makes of the rest.          *)
(***************************************************************************)
JList(v) == [t |-> "list", v |-> v]
JOther == [t |-> "null", v |-> <<>>]

IgnoreObject(hasDirs, dirs, hasFiles, files) ==
    [kind |-> "object", hasDirs |-> hasDirs, dirs |-> dirs,
     hasFiles |-> hasFiles, files |-> files]
IgnoreFailure(kind) ==
    [kind |-> kind, hasDirs |-> FALSE, dirs |-> JOther,
     hasFiles |-> FALSE, files |-> JOther]

\* a loader that falls back to a built-in ignore list when the file fails
load_ignore_list_builtin(ign) ==
    IF ign.kind # "object"
    THEN <<JList(<<"cache">>), JList(<<>>)>>
    ELSE <<IF ign.hasDirs THEN ign.dirs ELSE JList(<<>>),
           IF ign.hasFiles THEN ign.files ELSE JList(<<>>)>>

\* missing: exists() is false, line 31 returns [], [].
\* unreadable, malformed, nonobject: open, json.loads or ignore_data.get
\* raises inside the try, the except prints, line 31 returns [], [].
\* object: the two .get calls, each defaulting to [].
load_ignore_list(ign) ==
    IF ign.kind # "object"
    THEN <<JList(<<>>), JList(<<>>)>>
    ELSE <<IF ign.hasDirs THEN ign.dirs ELSE JList(<<>>),
           IF ign.hasFiles THEN ign.files ELSE JList(<<>>)>>

IgnoreConfigs ==
    {IgnoreFailure("missing"), IgnoreFailure("malformed"),
     IgnoreFailure("nonobject"),
     IgnoreObject(TRUE, JList(<<>>), TRUE, JList(<<>>)),
     IgnoreObject(TRUE, JList(<<"cache">>), FALSE, JOther),
     IgnoreObject(TRUE, JList(<<"deep">>), TRUE, JList(<<"a.sav">>)),
     IgnoreObject(TRUE, JOther, TRUE, JList(<<>>))}

\* x in lst, for a list
InList(x, lst) == \E i \in 1..Len(lst) : lst[i] = x

\* dirs left as os.walk listed them: nothing is pruned
KeepAll(names, lst) == names

\* [d for d in names if d not in lst]
RECURSIVE NotIn(_, _)
NotIn(names, lst) ==
    IF names = <<>> THEN <<>>
    ELSE (IF InList(Head(names), lst) THEN <<>> ELSE <<Head(names)>>)
         \o NotIn(Tail(names), lst)

\* the names os.scandir reports for a directory, directories or
\* non-directories, without the paths in gone
RECURSIVE EntryNames(_, _, _, _)
EntryNames(top, entries, isdir, gone) ==
    IF entries = <<>> THEN <<>>
    ELSE (IF Head(entries).isdir = isdir
             /\ PathJoin(top, Head(entries).name) \notin gone
          THEN <<Head(entries).name>> ELSE <<>>)
         \o EntryNames(top, Tail(entries), isdir, gone)

RECURSIVE Joined2(_, _)
Joined2(root, names) ==
    IF names = <<>> THEN <<>>
    ELSE <<PathJoin(root, Head(names))>> \o Joined2(root, Tail(names))

(***************************************************************************)
(* ScannerThread.run and scan_directory.                                   *)
(***************************************************************************)
Progress(text) == [signal |-> "progress", text |-> text, results |-> <<>>]
Finished(results) == [signal |-> "finished", text |-> "", results |-> results]
Error(text) == [signal |-> "error", text |-> text, results |-> <<>>]

save_info(root, file, det) ==
    [console_type |-> det.console_type,
     game_name |-> game_name(file),
     save_path |-> PathJoin(root, file),
     date_modified |-> FormatTime(MTime(PathJoin(root, file))),
     emulator |-> det.emulator,
     hardware_type |-> det.hardware_type]

\* the root handed to the scan and the directories that cannot be listed
Scenarios ==
    {<<"/r", {}>>, <<"/r", {"/r/gba"}>>, <<"/r", {"/r"}>>,
     <<"/r/cache", {}>>, <<"/missing", {}>>}

\* the config.json files the scans run under
ScanConfigs ==
    {Cfg("object", TRUE,
         [t |-> "dict", m |-> [k \in {"mGBA"} |-> Str("/opt/mgba")]]),
     Cfg("object", TRUE, JNull)}

ScanInit ==
    /\ \E sc \in Scenarios : directory = sc[1] /\ unreadable = sc[2]
    /\ removed = {}
    /\ ignore_json \in IgnoreConfigs
    /\ config_json \in ScanConfigs
    /\ WindowUnused
    /\ pc = "idle"
    /\ ignore_dirs = JList(<<>>) /\ ignore_files = JList(<<>>)
    /\ walk_stack = <<>> /\ walk_root = "" /\ walk_files = <<>>
    /\ save_files = <<>> /\ error = "" /\ emitted = <<>>
    /\ tree_changed = FALSE /\ prev = <<>>
    /\ DetectUnused /\ NameUnused

\* ScannerThread.run, line 166
Run ==
    /\ pc = "idle"
    /\ emitted' = <<Progress("Starting scan...")>>
    /\ pc' = "load"
    /\ UNCHANGED <<dvars, nvars, wvars, envvars, removed, ignore_json,
                   scanvars, tree_changed, prev>>

\* a result list that lives outside the call and is only ever appended to
KeptSaveFiles(old) == old

\* save_files = [] (line 110): each call builds its result in a new list,
\* whatever list an earlier call returned
NewSaveFiles(old) == <<>>

\* scan_directory, lines 110-111, and the call of os.walk
LoadIgnore ==
    /\ pc = "load"
    /\ save_files' = NewSaveFiles(save_files)
    /\ ignore_dirs' = load_ignore_list(ignore_json)[1]
    /\ ignore_files' = load_ignore_list(ignore_json)[2]
    /\ walk_stack' = <<directory>>
    /\ walk_root' = "" /\ walk_files' = <<>>
    /\ pc' = "walk"
    /\ UNCHANGED <<dvars, nvars, wvars, envvars, removed, ignore_json, error,
                   emitted, tree_changed, prev>>

\* os.walk lists the next directory (a directory it cannot list yields
\* nothing: onerror is None) and line 120 prunes dirs in place, which is
\* what os.walk descends into afterwards.
WalkDir ==
    /\ pc = "walk" /\ walk_files = <<>> /\ walk_stack # <<>>
    /\ LET top == Head(walk_stack)
           dirs == EntryNames(top, Listing(top), TRUE, {})
           nondirs == EntryNames(top, Listing(top), FALSE, removed)
       IN  IF top \notin TreeDirs \/ top \in unreadable
           THEN /\ walk_stack' = Tail(walk_stack)
                /\ UNCHANGED <<walk_root, walk_files, error, pc>>
           ELSE IF dirs # <<>> /\ ignore_dirs.t # "list"
           THEN /\ error' = "TypeError"
                /\ pc' = "raised"
                /\ UNCHANGED <<walk_stack, walk_root, walk_files>>
           ELSE /\ walk_root' = top
                /\ walk_files' = nondirs
                /\ walk_stack' =
                      Joined2(top, NotIn(dirs, ignore_dirs.v))
                      \o Tail(walk_stack)
                /\ UNCHANGED <<error, pc>>
    /\ UNCHANGED <<dvars, nvars, wvars, envvars, removed, ignore_json,
                   ignore_dirs, ignore_files, save_files, emitted,
                   tree_changed, prev>>

\* One iteration of "for file in files", lines 122-151.
ProcessFile ==
    /\ pc = "walk" /\ walk_files # <<>>
    /\ LET file == Head(walk_files)
           file_path == PathJoin(walk_root, file)
           det == detect_console_type(file_path, config_json)
       IN  IF ignore_files.t # "list"
           THEN /\ error' = "TypeError" /\ pc' = "raised"
                /\ UNCHANGED <<walk_files, save_files>>
           ELSE IF InList(file, ignore_files.v)
           THEN /\ walk_files' = Tail(walk_files)
                /\ UNCHANGED <<save_files, error, pc>>
           ELSE IF Lower(PathSuffix(file)) \notin save_extensions
           THEN /\ walk_files' = Tail(walk_files)
                /\ UNCHANGED <<save_files, error, pc>>
           ELSE IF file_path \in removed
           THEN /\ error' = "FileNotFoundError" /\ pc' = "raised"
                /\ UNCHANGED <<walk_files, save_files>>
           ELSE IF det.kind = "raised"
           THEN /\ error' = det.console_type /\ pc' = "raised"
                /\ UNCHANGED <<walk_files, save_files>>
           ELSE /\ save_files' = Append(save_files,
                                        save_info(walk_root, file, det))
                /\ walk_files' = Tail(walk_files)
                /\ UNCHANGED <<error, pc>>
    /\ UNCHANGED <<dvars, nvars, wvars, envvars, removed, ignore_json,
                   ignore_dirs, ignore_files, walk_stack, walk_root, emitted,
                   tree_changed, prev>>

\* os.walk is exhausted: line 153 returns save_files to run
ScanReturn ==
    /\ pc = "walk" /\ walk_files = <<>> /\ walk_stack = <<>>
    /\ pc' = "returned"
    /\ UNCHANGED <<dvars, nvars, wvars, envvars, removed, ignore_json,
                   scanvars, emitted, tree_changed, prev>>

\* a count that leaves out the last record
FoundTextShort(results) ==
    IF Len(results) = 0 THEN "Found 0 save files"
    ELSE "Found " \o ToString(Len(results) - 1) \o " save files"

\* f"Found {len(results)} save files"
FoundText(results) == "Found " \o ToString(Len(results)) \o " save files"

\* ScannerThread.run, lines 168-169
EmitFinished ==
    /\ pc = "returned"
    /\ emitted' = emitted \o <<Progress(FoundText(save_files)),
                               Finished(save_files)>>
    /\ pc' = "finished"
    /\ UNCHANGED <<dvars, nvars, wvars, envvars, removed, ignore_json,
                   scanvars, tree_changed, prev>>

\* ScannerThread.run, lines 170-171
EmitError ==
    /\ pc = "raised"
    /\ emitted' = Append(emitted, Error(error))
    /\ pc' = "failed"
    /\ UNCHANGED <<dvars, nvars, wvars, envvars, removed, ignore_json,
                   scanvars, tree_changed, prev>>

\* Another process deletes a file of the tree while the scan runs.
RemoveFile ==
    /\ pc \in {"load", "walk"}
    /\ \E f \in AllFiles \ removed : removed' = removed \cup {f}
    /\ tree_changed' = TRUE
    /\ UNCHANGED <<dvars, nvars, wvars, envvars, ignore_json, pc, scanvars,
                   emitted, prev>>

\* what a finished run leaves behind for comparison with the next one
Summary ==
    [ignore_json |-> ignore_json,
     outcome |-> pc,
     save_files |-> save_files,
     error |-> error,
     emitted |-> emitted]

\* The user scans the same directory again (a new ScannerThread), possibly
\* after ignore.json was edited.  The list the previous call returned stays
\* with its caller; the other locals of that call are gone.
ScanAgain ==
    /\ pc \in {"finished", "failed"}
    /\ prev' = IF tree_changed THEN <<>> ELSE <<Summary>>
    /\ \E ign \in IgnoreConfigs : ignore_json' = ign
    /\ pc' = "idle"
    /\ ignore_dirs' = JList(<<>>) /\ ignore_files' = JList(<<>>)
    /\ walk_stack' = <<>> /\ walk_root' = "" /\ walk_files' = <<>>
    /\ error' = "" /\ emitted' = <<>>
    /\ tree_changed' = FALSE
    /\ UNCHANGED <<dvars, nvars, wvars, envvars, removed, save_files>>

Next ==
    \/ Run
    \/ LoadIgnore
    \/ WalkDir
    \/ ProcessFile
    \/ ScanReturn
    \/ EmitFinished
    \/ EmitError
    \/ RemoveFile
    \/ ScanAgain

Spec == ScanInit /\ [][Next]_vars

\* A step of the QThread: run, and scan_directory called from it.
ThreadStep ==
    \/ Run
    \/ LoadIgnore
    \/ WalkDir
    \/ ProcessFile
    \/ ScanReturn
    \/ EmitFinished
    \/ EmitError

\* One run of a ScannerThread, from start() to the end of run.
RunNext ==
    \/ ThreadStep
    \/ RemoveFile

\* run has not returned.  This is ENABLED <<ThreadStep>>_vars: Run is
\* guarded by "idle", LoadIgnore by "load", EmitFinished by "returned",
\* EmitError by "raised", and at "walk" exactly one of WalkDir, ProcessFile
\* and ScanReturn applies; each of them changes pc, walk_stack or walk_files.
ThreadActive == pc \in {"idle", "load", "walk", "returned", "raised"}

\* A started QThread is scheduled until run returns: weak fairness of
\* ThreadStep, with its enabling condition written out as ThreadActive.
\* Deletions are the environment's and need not happen.
ThreadFair == []<>(~ThreadActive) \/ []<><<ThreadStep>>_vars

SpecRun == ScanInit /\ [][RunNext]_vars /\ ThreadFair

(***************************************************************************)
(* ScanningWindow.  Its handlers run on the GUI thread; the signals of the *)
(* scanner are emitted on the scanner's thread and therefore queued: the   *)
(* window handles them later, one at a time, in the order of emission.     *)
(* The signals not yet handled are emitted[delivered + 1 ..].              *)
(***************************************************************************)
\* the directories QFileDialog.getExistingDirectory may return
WindowRoots == {"/r", "/r/gba", "/missing"}

\* the select button left enabled while the scan runs
SelectButtonLeftEnabled == TRUE

\* self.select_button.setEnabled(False), line 203
SelectButtonWhileScanning == FALSE

\* __init__, lines 174-197: nothing selected yet, no scanner
WindowInit ==
    /\ select_enabled = TRUE
    /\ status_label = "Select a directory to scan"
    /\ scan_results = <<>>
    /\ dialog = "open" /\ msg_open = FALSE
    /\ delivered = 0 /\ orphans = 0 /\ scans = 0
    /\ directory = "" /\ unreadable = {} /\ removed = {}
    /\ ignore_json \in IgnoreConfigs
    /\ config_json \in ScanConfigs
    /\ pc = "none"
    /\ ignore_dirs = JList(<<>>) /\ ignore_files = JList(<<>>)
    /\ walk_stack = <<>> /\ walk_root = "" /\ walk_files = <<>>
    /\ save_files = <<>> /\ error = "" /\ emitted = <<>>
    /\ tree_changed = FALSE /\ prev = <<>>
    /\ DetectUnused /\ NameUnused

\* A click on the select button, lines 199-211.  Only an enabled button of
\* a visible dialog with no modal box over it can be clicked.  The file
\* dialog is modal too, so the handler is not re-entered while it is open.
\* Either the file dialog is cancelled (directory is '', nothing happens),
\* or the button is disabled and a new ScannerThread replaces self.scanner
\* and is started; a replaced thread that is still running keeps running.
SelectDirectory ==
    /\ dialog = "open" /\ select_enabled /\ ~msg_open
    /\ \/ UNCHANGED vars
       \/ /\ scans < MaxScans
          /\ \E d \in WindowRoots : directory' = d
          /\ select_enabled' = SelectButtonWhileScanning
          /\ orphans' = orphans + (IF ThreadActive THEN 1 ELSE 0)
          /\ scans' = scans + 1
          /\ pc' = "idle"
          /\ emitted' = <<>> /\ delivered' = 0
          /\ ignore_dirs' = JList(<<>>) /\ ignore_files' = JList(<<>>)
          /\ walk_stack' = <<>> /\ walk_root' = "" /\ walk_files' = <<>>
          /\ error' = ""
          /\ UNCHANGED <<dvars, nvars, unreadable, config_json, removed,
                         ignore_json, save_files, tree_changed, prev,
                         status_label, scan_results, dialog, msg_open>>

\* update_status, lines 215-216, on the next queued progress_signal
UpdateStatus ==
    /\ delivered < Len(emitted)
    /\ emitted[delivered + 1].signal = "progress"
    /\ status_label' = emitted[delivered + 1].text
    /\ delivered' = delivered + 1
    /\ UNCHANGED <<dvars, nvars, envvars, removed, ignore_json, pc,
                   scanvars, emitted, tree_changed, prev, select_enabled,
                   scan_results, dialog, msg_open, orphans, scans>>

\* handle_results, lines 224-229, on the queued finished_signal
HandleResults ==
    /\ delivered < Len(emitted)
    /\ emitted[delivered + 1].signal = "finished"
    /\ scan_results' = emitted[delivered + 1].results
    /\ dialog' = "accepted"
    /\ delivered' = delivered + 1
    /\ UNCHANGED <<dvars, nvars, envvars, removed, ignore_json, pc,
                   scanvars, emitted, tree_changed, prev, select_enabled,
                   status_label, msg_open, orphans, scans>>

\* handle_error, lines 218-222, on the queued error_signal: the button is
\* enabled again and the handler waits inside QMessageBox.critical
HandleError ==
    /\ delivered < Len(emitted)
    /\ emitted[delivered + 1].signal = "error"
    /\ select_enabled' = TRUE
    /\ msg_open' = TRUE
    /\ delivered' = delivered + 1
    /\ UNCHANGED <<dvars, nvars, envvars, removed, ignore_json, pc,
                   scanvars, emitted, tree_changed, prev, status_label,
                   scan_results, dialog, orphans, scans>>

\* the user closes the message box and handle_error returns
DismissMessage ==
    /\ msg_open
    /\ msg_open' = FALSE
    /\ UNCHANGED <<dvars, nvars, envvars, removed, ignore_json, pc,
                   scanvars, emitted, tree_changed, prev, select_enabled,
                   status_label, scan_results, dialog, delivered, orphans,
                   scans>>

WindowNext ==
    \/ SelectDirectory
    \/ UpdateStatus
    \/ HandleResults
    \/ HandleError
    \/ DismissMessage
    \/ ThreadStep

SpecWindow == WindowInit /\ [][WindowNext]_vars

(***************************************************************************)
(* Claims about scan_directory and ScannerThread, checked under Spec.      *)
(***************************************************************************)
RECURSIVE SavePaths(_)
SavePaths(records) ==
    IF records = <<>> THEN <<>>
    ELSE <<Head(records).save_path>> \o SavePaths(Tail(records))

\* a is b with some elements left out
RECURSIVE IsSubsequence(_, _)
IsSubsequence(a, b) ==
    IF a = <<>> THEN TRUE
    ELSE IF b = <<>> THEN FALSE
    ELSE IF Head(a) = Head(b) THEN IsSubsequence(Tail(a), Tail(b))
    ELSE IsSubsequence(a, Tail(b))

\* The names ignore.json lists, when it is an object holding lists.
ListedDirs ==
    IF ignore_json.kind = "object" /\ ignore_json.hasDirs
       /\ ignore_json.dirs.t = "list"
    THEN {ignore_json.dirs.v[i] : i \in 1..Len(ignore_json.dirs.v)}
    ELSE {}
ListedFiles ==
    IF ignore_json.kind = "object" /\ ignore_json.hasFiles
       /\ ignore_json.files.t = "list"
    THEN {ignore_json.files.v[i] : i \in 1..Len(ignore_json.files.v)}
    ELSE {}

\* ignore.json and config.json hold values of the documented types
IgnoreWellTyped ==
    ignore_json.kind = "object" =>
        /\ ignore_json.hasDirs => ignore_json.dirs.t = "list"
        /\ ignore_json.hasFiles => ignore_json.files.t = "list"
ConfigWellTyped ==
    (config_json.kind = "object" /\ config_json.has)
        => config_json.ep.t = "dict"

\* The files a traversal from dir meets, in its order: the qualifying files
\* of dir that are not in gone, then those of each listable, not ignored
\* sub-directory in listing order.
RECURSIVE QualifyingFiles(_, _, _)
RECURSIVE QualifyingSubdirs(_, _, _)
QualifyingFiles(dir, entries, gone) ==
    IF entries = <<>> THEN <<>>
    ELSE LET e == Head(entries)
             path == PathJoin(dir, e.name)
         IN  (IF /\ ~e.isdir
                 /\ path \notin gone
                 /\ e.name \notin ListedFiles
                 /\ Lower(PathSuffix(e.name)) \in save_extensions
              THEN <<path>> ELSE <<>>)
             \o QualifyingFiles(dir, Tail(entries), gone)
QualifyingSubdirs(dir, entries, gone) ==
    IF entries = <<>> THEN <<>>
    ELSE LET e == Head(entries)
             path == PathJoin(dir, e.name)
         IN  (IF e.isdir /\ e.name \notin ListedDirs /\ path \notin unreadable
              THEN QualifyingFiles(path, Listing(path), gone)
                   \o QualifyingSubdirs(path, Listing(path), gone)
              ELSE <<>>)
             \o QualifyingSubdirs(dir, Tail(entries), gone)

Qualifying(gone) ==
    IF directory \notin TreeDirs \/ directory \in unreadable THEN <<>>
    ELSE QualifyingFiles(directory, Listing(directory), gone)
         \o QualifyingSubdirs(directory, Listing(directory), gone)

ScanEnded == pc \in {"returned", "finished", "raised", "failed"}

\* C2: scan_directory returns exactly one record for every file of the
\* subtree that is not under a pruned directory, is not named in
\* ignore_files and has a save extension, none for any other file, in
\* traversal order.  (Stated for configuration files of the documented
\* types; a file deleted during the scan may or may not be reported.)
C2_ExactlyQualifyingFiles ==
    (ScanEnded /\ IgnoreWellTyped /\ ConfigWellTyped)
    => /\ pc \in {"returned", "finished"}
       /\ IsSubsequence(Qualifying(removed), SavePaths(save_files))
       /\ IsSubsequence(SavePaths(save_files), Qualifying({}))

\* What does hold: a scan that returns reports the qualifying files.
ReturnedScanIsExact ==
    (pc \in {"returned", "finished"})
    => /\ IsSubsequence(Qualifying(removed), SavePaths(save_files))
       /\ IsSubsequence(SavePaths(save_files), Qualifying({}))

\* the "/"-separated components of a relative path
RECURSIVE Components(_)
Components(s) ==
    IF s = "" THEN {}
    ELSE LET i == Find(s, "/")
         IN  IF i = 0 THEN {s}
             ELSE {SubSeq(s, 1, i - 1)}
                  \cup Components(SubSeq(s, i + 1, Len(s)))

\* the directory names on the way from the scanned root down to path
\* (the root itself excluded, the last component included)
BelowRoot(path) ==
    IF Len(path) > Len(directory)
       /\ SubSeq(path, 1, Len(directory) + 1) = directory \o "/"
    THEN Components(SubSeq(path, Len(directory) + 2, Len(path)))
    ELSE {}

\* the directory names between the root and the file at path
DirsAbove(path) ==
    BelowRoot(SubSeq(path, 1, RFind(path, "/") - 1))

\* C3: scan_directory never visits a directory below the root whose name
\* is an entry of ignore_directories, and no file at any depth under such
\* a directory appears in the result.
C3_IgnoredDirsNeverVisited ==
    /\ BelowRoot(walk_root) \cap ListedDirs = {}
    /\ \A i \in 1..Len(walk_stack) :
          BelowRoot(walk_stack[i]) \cap ListedDirs = {}
    /\ pc \notin {"idle", "load"}
          => \A i \in 1..Len(save_files) :
                DirsAbove(save_files[i].save_path) \cap ListedDirs = {}

\* C3 witness: /r scanned to the end with "cache" ignored, while
\* /r/cache/deep holds a save file.
C3_Witness ==
    /\ pc = "finished"
    /\ directory = "/r"
    /\ ListedDirs = {"cache"}
    /\ "/r/cache/deep/d.srm" \notin removed
    /\ SavePaths(save_files) = <<"/r/a.sav", "/r/gba/p.SAV">>

\* C4: a file deleted between its listing and the reading of its
\* modification time does not abort the scan.
C4_EntryFailureTolerated ==
    ScanEnded => error # "FileNotFoundError"

\* What does hold of C4: a sub-directory that cannot be listed is left out
\* without aborting the scan.
UnreadableSubdirSkipped ==
    (pc = "finished" /\ directory = "/r" /\ unreadable = {"/r/gba"})
    => \A i \in 1..Len(save_files) :
          "gba" \notin DirsAbove(save_files[i].save_path)

RootInaccessible == directory \notin TreeDirs \/ directory \in unreadable

\* C5: when the root is missing or unreadable the run emits error_signal
\* and never finished_signal.
C5_InaccessibleRootFails ==
    RootInaccessible
    => \A i \in 1..Len(emitted) : emitted[i].signal # "finished"

IsFailure(ign) == ign.kind # "object"
ExplicitEmpty == IgnoreObject(TRUE, JList(<<>>), TRUE, JList(<<>>))

\* C10: load_ignore_list returns two empty lists when ignore.json is
\* missing, unreadable or malformed, without raising, and a scan under such
\* an ignore.json ends as the scan of the same tree under an ignore.json
\* whose two lists are explicitly empty.
C10_FailureIsEmptyIgnoreList ==
    /\ (pc \notin {"idle", "load"} /\ IsFailure(ignore_json))
          => /\ ignore_dirs = JList(<<>>)
             /\ ignore_files = JList(<<>>)
    /\ (/\ prev # <<>> /\ ~tree_changed
        /\ pc \in {"finished", "failed"}
        /\ \/ IsFailure(prev[1].ignore_json) /\ ignore_json = ExplicitEmpty
           \/ prev[1].ignore_json = ExplicitEmpty /\ IsFailure(ignore_json))
          => /\ pc = prev[1].outcome
             /\ save_files = prev[1].save_files
             /\ error = prev[1].error

\* C10 witness: /r scanned under a malformed ignore.json, then again under
\* explicitly empty lists, the tree untouched, three records each time.
C10_Witness ==
    /\ prev # <<>> /\ ~tree_changed
    /\ directory = "/r"
    /\ prev[1].ignore_json = IgnoreFailure("malformed")
    /\ ignore_json = ExplicitEmpty
    /\ pc = "finished"
    /\ Len(save_files) = 3
    /\ Len(prev[1].save_files) = 3

\* C11: two runs of scan_directory on the same root, with the tree,
\* ignore.json and config.json unchanged between and during them, end the
\* same way with identical record sequences: nothing of the first run is
\* carried into the second.
C11_RescanIdentical ==
    (/\ prev # <<>> /\ ~tree_changed
     /\ pc \in {"finished", "failed"}
     /\ ignore_json = prev[1].ignore_json)
    => /\ pc = prev[1].outcome
       /\ save_files = prev[1].save_files
       /\ error = prev[1].error

\* C11 witness: /r scanned twice with "cache" ignored and the tree
\* untouched, two records each time.
C11_Witness ==
    /\ prev # <<>> /\ ~tree_changed
    /\ directory = "/r"
    /\ ignore_json = prev[1].ignore_json
    /\ ListedDirs = {"cache"}
    /\ pc = "finished"
    /\ prev[1].outcome = "finished"
    /\ Len(save_files) = 2
    /\ save_files = prev[1].save_files

IsTerminal(sig) == sig.signal \in {"finished", "error"}
Terminals == {i \in 1..Len(emitted) : IsTerminal(emitted[i])}
RunEnded == pc \in {"finished", "failed"}

\* the signals of a run so far: "Starting scan..." first, at most one
\* terminal signal and nothing after it; a run that ended has exactly one;
\* a successful run emitted "Found N save files" for its N records right
\* before finished_signal(results), a failed one ends with error_signal
SignalsInOrder ==
    /\ Cardinality(Terminals) <= 1
    /\ \A i \in Terminals : i = Len(emitted)
    /\ emitted # <<>> => emitted[1] = Progress("Starting scan...")
    /\ pc \in {"load", "walk", "returned", "raised"}
          => emitted = <<Progress("Starting scan...")>>
    /\ RunEnded => Cardinality(Terminals) = 1
    /\ pc = "finished"
          => /\ Len(emitted) = 3
             /\ emitted[3] = Finished(save_files)
             /\ emitted[2] =
                   Progress("Found " \o ToString(Len(emitted[3].results))
                            \o " save files")
    /\ pc = "failed"
          => /\ Len(emitted) = 2
             /\ emitted[2].signal = "error"

\* C13: every run of ScannerThread emits exactly one terminal signal,
\* finished_signal with the results or error_signal with a message, never
\* both and never neither; "Starting scan..." is emitted before it, and on
\* success "Found N save files", N the number of records returned, is
\* emitted before finished_signal.
C13_OneTerminalSignal ==
    /\ []SignalsInOrder
    /\ (pc = "idle") ~> RunEnded

\* C13 witness: a run over /r ended with "Found 3 save files" and then
\* finished_signal carrying the three records.
C13_Witness ==
    /\ pc = "finished"
    /\ Len(save_files) = 3
    /\ emitted = <<Progress("Starting scan..."),
                   Progress("Found 3 save files"),
                   Finished(save_files)>>

\* the console types the table holds for the extension of a path
TableConsoles(path) ==
    {v[1] : v \in TriplesFor(PathSuffix(Lower(path)))}

\* C15: the save-extension set of scan_directory is the key set of the
\* classifier's table, so every record of a scan has a console_type taken
\* from the table entry of its extension, never empty, and none carries
\* the fallback triple ("PC", "Unknown", "Unknown").
C15_RecordsClassifiedFromTable ==
    /\ save_extensions = TableExts
    /\ \A i \in 1..Len(save_files) :
          /\ save_files[i].console_type \in TableConsoles(save_files[i].save_path)
          /\ save_files[i].console_type # ""
          /\ ~(/\ save_files[i].console_type = "PC"
               /\ save_files[i].emulator = Str("Unknown")
               /\ save_files[i].hardware_type = "Unknown")

\* C15 witness: the scan of /r ended with its three records, next to the
\* file n.txt that has no save extension.
C15_Witness ==
    /\ pc = "finished"
    /\ directory = "/r"
    /\ SavePaths(save_files) =
          <<"/r/a.sav", "/r/cache/deep/d.srm", "/r/gba/p.SAV">>
    /\ save_files[1].console_type = "Game Boy"
    /\ save_files[2].console_type = "SNES"
    /\ save_files[3].console_type = "Game Boy"

(***************************************************************************)
(* Claims about ScanningWindow, checked under SpecWindow.                  *)
(***************************************************************************)
\* ScannerThreads whose run has started and not ended
InFlight == orphans + (IF ThreadActive THEN 1 ELSE 0)

\* every signal of self.scanner has been handled
AllHandled == delivered = Len(emitted)

\* C14: under any interleaving of clicks on the select button and signals
\* of the scanner, at most one ScannerThread is in flight; the button is
\* disabled while a scan runs and, once a scan was started, is enabled only
\* after that scan has emitted error_signal and handle_error has handled
\* it; once finished_signal is handled the dialog is accepted and
\* scan_results holds the results of that scan, and the dialog is accepted
\* in no other way.
C14_OneScanInFlight ==
    /\ InFlight <= 1
    /\ ThreadActive => ~select_enabled
    /\ (select_enabled /\ scans > 0)
          => /\ pc = "failed" /\ AllHandled
             /\ emitted[Len(emitted)].signal = "error"
    /\ (pc = "finished" /\ AllHandled)
          => /\ dialog = "accepted"
             /\ scan_results = emitted[Len(emitted)].results
             /\ scan_results = save_files
    /\ dialog = "accepted" => pc = "finished" /\ AllHandled

\* C14 witness: the scan of /r failed on an ignore.json whose
\* ignore_directories is null, the button was enabled again, /r/gba was
\* selected, and the one record of that scan is in scan_results.
C14_Witness ==
    /\ scans = 2
    /\ directory = "/r/gba"
    /\ pc = "finished" /\ AllHandled
    /\ dialog = "accepted"
    /\ ~select_enabled
    /\ SavePaths(scan_results) = <<"/r/gba/p.SAV">>
    /\ status_label = "Found 1 save files"

====
